---- MODULE Spec2Model ----
(***************************************************************************)
(* Configuration persistence of open_webui: the connection provider        *)
(* (apps/webui/internal/db.py) and the config store (config.py).           *)
(*                                                                         *)
(* Python strings are modelled as tuples of one-character strings, so that *)
(* str.split, the substring test `a in b` and str.replace are computed and *)
(* not assumed.  JSON values are tagged records.                           *)
(***************************************************************************)
EXTENDS Integers, Sequences, FiniteSets, TLC

(***************************************************************************)
(* Bounds of the model.                                                    *)
(***************************************************************************)
NumWorkers == 2
MaxCalls == 2
MaxRestarts == 1
MaxPathLen == 3

(***************************************************************************)
(* JSON values as Python sees them after json.load.                        *)
(***************************************************************************)
Null == [tag |-> "null"]
Bool(b) == [tag |-> "bool", b |-> b]
Num(n) == [tag |-> "num", n |-> n]
Str(s) == [tag |-> "str", s |-> s]
List(items) == [tag |-> "list", items |-> items]
Dict(map) == [tag |-> "dict", map |-> map]

\* Python's None is the value json.load gives for null.
None == Null

(***************************************************************************)
(* Outcomes of a Python call: a returned value or a raised exception.      *)
(***************************************************************************)
Return(v) == [kind |-> "return", value |-> v]
Raise(e) == [kind |-> "raise", exc |-> e]
NoOutcome == [kind |-> "none"]

(***************************************************************************)
(* str operations.                                                         *)
(***************************************************************************)
\* sub in s, for two str
StrContains(s, sub) ==
    \E i \in 1..(Len(s) - Len(sub) + 1) : SubSeq(s, i, i + Len(sub) - 1) = sub

RECURSIVE SplitFrom(_, _, _)
\* s.split(sep) for a one-character sep: cur is the segment being read
SplitFrom(s, sep, cur) ==
    IF s = <<>> THEN <<cur>>
    ELSE IF Head(s) = sep THEN <<cur>> \o SplitFrom(Tail(s), sep, <<>>)
    ELSE SplitFrom(Tail(s), sep, Append(cur, Head(s)))

Split(s, sep) == SplitFrom(s, sep, <<>>)

\* s.startswith(prefix)
StartsWith(s, prefix) ==
    Len(prefix) <= Len(s) /\ SubSeq(s, 1, Len(prefix)) = prefix

RECURSIVE Replace(_, _, _)
\* s.replace(old, new) for a non-empty old: every occurrence, left to right
Replace(s, old, new) ==
    IF s = <<>> THEN <<>>
    ELSE IF StartsWith(s, old)
         THEN new \o Replace(SubSeq(s, Len(old) + 1, Len(s)), old, new)
         ELSE <<Head(s)>> \o Replace(Tail(s), old, new)

(***************************************************************************)
(* DEFAULT_CONFIG, config.py lines 44-59.                                  *)
(***************************************************************************)
DEFAULT_CONFIG ==
  Dict(<<"v", "e", "r", "s", "i", "o", "n">> :> Num(0)
    @@ <<"u", "i">> :> Dict(<<"d", "e", "f", "a", "u", "l", "t", "_", "l", "o", "c", "a", "l", "e">> :> Str(<<>>)
      @@ <<"p", "r", "o", "m", "p", "t", "_", "s", "u", "g", "g", "e", "s", "t", "i", "o", "n", "s">> :> List(<<Dict(<<"t", "i", "t", "l", "e">> :> List(<<Str(<<"H", "e", "l", "p", " ", "m", "e", " ", "s", "t", "u", "d", "y">>),
            Str(<<"v", "o", "c", "a", "b", "u", "l", "a", "r", "y", " ", "f", "o", "r", " ", "a", " ", "c", "o", "l", "l", "e", "g", "e", " ", "e", "n", "t", "r", "a", "n", "c", "e", " ", "e", "x", "a", "m">>)>>)
          @@ <<"c", "o", "n", "t", "e", "n", "t">> :> Str(<<"H", "e", "l", "p", " ", "m", "e", " ", "s", "t", "u", "d", "y", " ", "v", "o", "c", "a", "b", "u", "l", "a", "r", "y", ":", " ", "w", "r", "i", "t", "e", " ", "a", " ", "s", "e", "n", "t", "e", "n", "c", "e", " ", "f", "o", "r", " ", "m", "e", " ", "t", "o", " ", "f", "i", "l", "l", " ", "i", "n", " ", "t", "h", "e", " ", "b", "l", "a", "n", "k", ",", " ", "a", "n", "d", " ", "I", "'", "l", "l", " ", "t", "r", "y", " ", "t", "o", " ", "p", "i", "c", "k", " ", "t", "h", "e", " ", "c", "o", "r", "r", "e", "c", "t", " ", "o", "p", "t", "i", "o", "n", ".">>)),
        Dict(<<"t", "i", "t", "l", "e">> :> List(<<Str(<<"T", "e", "l", "l", " ", "m", "e", " ", "a", " ", "f", "u", "n", " ", "f", "a", "c", "t">>),
            Str(<<"a", "b", "o", "u", "t", " ", "t", "h", "e", " ", "R", "o", "m", "a", "n", " ", "E", "m", "p", "i", "r", "e">>)>>)
          @@ <<"c", "o", "n", "t", "e", "n", "t">> :> Str(<<"T", "e", "l", "l", " ", "m", "e", " ", "a", " ", "r", "a", "n", "d", "o", "m", " ", "f", "u", "n", " ", "f", "a", "c", "t", " ", "a", "b", "o", "u", "t", " ", "t", "h", "e", " ", "R", "o", "m", "a", "n", " ", "E", "m", "p", "i", "r", "e">>))>>)))

(***************************************************************************)
(* get_config_value, config.py lines 120-131.                              *)
(***************************************************************************)
\* `key in cur_config` (line 127): a TypeError for values that are not
\* containers, key membership for a dict, element membership for a list and
\* the substring test for a str.
KeyIn(key, cur) ==
    CASE cur.tag = "dict" -> Return(key \in DOMAIN cur.map)
      [] cur.tag = "list" ->
            Return(\E i \in 1..Len(cur.items) :
                      /\ cur.items[i].tag = "str"
                      /\ cur.items[i].s = key)
      [] cur.tag = "str" -> Return(StrContains(cur.s, key))
      [] OTHER -> Raise("TypeError")

\* `cur_config[key]` (line 128) for a str key: only a dict can be indexed
\* by a str; a missing key is a KeyError.
GetItem(cur, key) ==
    CASE cur.tag = "dict" ->
            IF key \in DOMAIN cur.map THEN Return(cur.map[key])
            ELSE Raise("KeyError")
      [] OTHER -> Raise("TypeError")

RECURSIVE WalkPath(_, _)
\* the for loop of lines 126-131 over the remaining path_parts
WalkPath(cur_config, path_parts) ==
    IF path_parts = <<>> THEN Return(cur_config)
    ELSE LET key == Head(path_parts)
             found == KeyIn(key, cur_config)
         IN  IF found.kind = "raise" THEN found
             ELSE IF found.value
                  THEN LET item == GetItem(cur_config, key)
                       IN  IF item.kind = "raise" THEN item
                           ELSE WalkPath(item.value, Tail(path_parts))
                  ELSE Return(None)

\* cached is the module global CONFIG_DATA, or Unbound when line 118 has
\* not assigned it.
Unbound == [tag |-> "unbound"]

get_config_value(cached, config_path) ==
    IF cached = Unbound THEN Raise("NameError")
    ELSE WalkPath(cached, Split(config_path, "."))

(***************************************************************************)
(* State.                                                                  *)
(*   DATABASE_URL    the environment setting read by db.py                 *)
(*   persisted       the rows of the config table when the process started *)
(*   table           the rows of the config table, in id order             *)
(*   config_json, old_config_json   the two files under DATA_DIR           *)
(*   restarts        number of process restarts so far                     *)
(*   migration       the call of handle_peewee_migration made by db.py     *)
(*   boot            position of the module-level code of config.py        *)
(*   initial_data    the module global set by line 113                     *)
(*   CONFIG_DATA     the module global set by line 118                     *)
(*   pc, op, arg     per thread: position in, name and argument of the     *)
(*                   config function being run                             *)
(*   db              per thread: the value bound by `with get_db() as db`  *)
(*   existing_config per thread: the local of save_to_db                   *)
(*   before          per thread: the table when the call began             *)
(*   ret             per thread: outcome of the last completed call        *)
(*   prev            per thread: the call completed before that            *)
(*   ncalls          per thread: calls begun since the process started     *)
(*   environ         the DATABASE_URL setting of the process environment   *)
(*   pool            the DATABASE_POOL_* settings read by db.py            *)
(*   engine          the module global engine of db.py                     *)
(***************************************************************************)
VARIABLES DATABASE_URL, persisted, table, config_json, old_config_json,
          restarts, migration, boot, initial_data, CONFIG_DATA,
          pc, op, arg, db, existing_config, before, ret, prev, ncalls,
          environ, pool, engine

envVars == <<DATABASE_URL, persisted>>
engineVars == <<environ, pool, engine>>
fileVars == <<config_json, old_config_json>>
threadVars == <<pc, op, arg, db, existing_config, before, ret, prev, ncalls>>
vars == <<DATABASE_URL, persisted, table, config_json, old_config_json,
          restarts, migration, boot, initial_data, CONFIG_DATA,
          pc, op, arg, db, existing_config, before, ret, prev, ncalls,
          environ, pool, engine>>

\* Thread 0 runs the module-level code; the workers call the config
\* functions afterwards.
MainThread == 0
Workers == 1..NumWorkers
Threads == {MainThread} \cup Workers

(***************************************************************************)
(* Inputs.                                                                 *)
(***************************************************************************)
\* DATABASE_URL unset/empty, sqlite:///:memory:, sqlite:///w.db,
\* postgresql://h/d
Urls ==
    { <<>>,
      <<"s", "q", "l", "i", "t", "e", ":", "/", "/", "/", ":", "m", "e", "m", "o", "r", "y", ":">>,
      <<"s", "q", "l", "i", "t", "e", ":", "/", "/", "/", "w", ".", "d", "b">>,
      <<"p", "o", "s", "t", "g", "r", "e", "s", "q", "l", ":", "/", "/", "h", "/", "d">> }

\* {"a": 1} and {"ui": {"x": 5}}
DocA == Dict(<<"a">> :> Num(1))
DocUi == Dict(<<"u", "i">> :> Dict(<<"x">> :> Num(5)))
SaveDocs == {DocA, DocUi}

\* A row of class Config, config.py lines 34-41.
Row(id, data, version, created_at, updated_at) ==
    [id |-> id, data |-> data, version |-> version,
     created_at |-> created_at, updated_at |-> updated_at]

\* Tables a database file can hold when the process starts: no row, or the
\* rows an earlier run of the application left behind.
PersistedTables ==
    { <<>>,
      <<Row(1, DocA, 0, "t0", "null")>>,
      <<Row(1, DocA, 0, "t0", "null"), Row(2, DocUi, 0, "t0", "null")>> }

\* Contents of DATA_DIR/config.json: no file, a JSON object, or text that
\* json.load rejects.
Absent == [kind |-> "absent"]
JsonFile(doc) == [kind |-> "json", doc |-> doc]
Garbage == [kind |-> "garbage"]
LegacyFiles == {Absent, Garbage, JsonFile(DocA)}

(***************************************************************************)
(* open_webui.env: DATABASE_URL as db.py imports it.  The module is not    *)
(* among the sources; its rewriting of the legacy scheme is taken from the *)
(* specification.                                                          *)
(***************************************************************************)
PostgresScheme == <<"p", "o", "s", "t", "g", "r", "e", "s", ":", "/", "/">>
PostgresqlScheme == <<"p", "o", "s", "t", "g", "r", "e", "s", "q", "l", ":", "/", "/">>

NormalizeUrl(url) ==
    IF StartsWith(url, PostgresScheme)
    THEN PostgresqlScheme \o SubSeq(url, Len(PostgresScheme) + 1, Len(url))
    ELSE url

\* DATABASE_POOL_SIZE, DATABASE_POOL_MAX_OVERFLOW, DATABASE_POOL_TIMEOUT and
\* DATABASE_POOL_RECYCLE as db.py imports them
PoolSettings(size, max_overflow, timeout, recycle) ==
    [DATABASE_POOL_SIZE |-> size, DATABASE_POOL_MAX_OVERFLOW |-> max_overflow,
     DATABASE_POOL_TIMEOUT |-> timeout, DATABASE_POOL_RECYCLE |-> recycle]

DefaultPool == PoolSettings(0, 0, 30, 3600)

(***************************************************************************)
(* db.py: the engine, lines 70-91.                                         *)
(***************************************************************************)
\* engine before db.py has run, and `engine = None` of line 71
NoEngine == [kind |-> "None"]

\* create_engine(url, **kwargs): the engine remembers what it was given
Engine(url, kwargs) == [kind |-> "engine", url |-> url, kwargs |-> kwargs]

Sqlite == <<"s", "q", "l", "i", "t", "e">>

\* line 58: the URL given to register_connection
PeeweeUrl(database_url) == Replace(database_url, PostgresqlScheme, PostgresScheme)

\* line 70 with the rewriting of line 58 applied to the engine's URL as well
SQLALCHEMY_DATABASE_URL_Rewritten(database_url) == PeeweeUrl(database_url)

\* line 70
SQLALCHEMY_DATABASE_URL(database_url) == database_url

\* lines 71-91, for the URL of line 70 and the pool settings
create_engine(url, settings) ==
    IF url = <<>> THEN NoEngine
    ELSE IF StrContains(url, Sqlite)
    THEN Engine(url, [connect_args |-> [check_same_thread |-> FALSE]])
    ELSE IF settings.DATABASE_POOL_SIZE > 0
    THEN Engine(url, [pool_size |-> settings.DATABASE_POOL_SIZE,
                      max_overflow |-> settings.DATABASE_POOL_MAX_OVERFLOW,
                      pool_timeout |-> settings.DATABASE_POOL_TIMEOUT,
                      pool_recycle |-> settings.DATABASE_POOL_RECYCLE,
                      pool_pre_ping |-> TRUE,
                      poolclass |-> "QueuePool"])
    ELSE Engine(url, [pool_pre_ping |-> TRUE, poolclass |-> "NullPool"])

(***************************************************************************)
(* db.py: the session factory, lines 94-99.                                *)
(***************************************************************************)
\* SessionLocal is a sessionmaker when the URL is non-empty and None
\* otherwise; TRUE stands for the sessionmaker.
SessionLocal(url) == url # <<>>

(***************************************************************************)
(* db.py: get_session and get_db, lines 102-122.                           *)
(***************************************************************************)
\* The values `db` can be bound to: None, a generator object, a Session.
NoneObject == [kind |-> "None", state |-> "none", closes |-> 0]
GeneratorObject == [kind |-> "generator", state |-> "created", closes |-> 0]
SessionObject == [kind |-> "session", state |-> "open", closes |-> 0]

\* get_session contains a yield, so it is a generator function: calling it
\* runs none of its body (neither the SessionLocal test of line 115 nor
\* SessionLocal() of line 118) and returns a new generator object.
get_session(session_local) == GeneratorObject

\* `if db` of line 110
Truthy(h) == h.kind # "None"

\* db.close(): generator.close() on a generator that was never started
\* marks it closed without running its body; Session.close() closes the
\* session.
Close(h) == [h EXCEPT !.state = "closed", !.closes = @ + 1]

\* get_db up to its yield (lines 105-108): the value handed to the block
get_db_enter(session_local) == get_session(session_local)

\* get_db after its yield (lines 109-111), run on every way out of the block
get_db_exit(h) == IF Truthy(h) THEN Close(h) ELSE h

(***************************************************************************)
(* db.py: handle_peewee_migration, lines 51-67.                            *)
(***************************************************************************)
MemoryUrl ==
    <<"s", "q", "l", "i", "t", "e", ":", "/", "/", "/", ":", "m", "e", "m", "o", "r", "y", ":">>

\* line 52
SkipsMigration(database_url) ==
    database_url = <<>> \/ StrContains(database_url, MemoryUrl)

\* What the collaborators can do: register_connection raises or returns a
\* connection that is open or closed; Router(...).run() raises or returns,
\* leaving the connection open or closed.
RegisterOutcomes == {"raises", "open", "closed"}
RunOutcomes == [raises : BOOLEAN, conn : {"open", "closed"}]

NotCalled ==
    [status |-> "not_called", conn |-> "None", closes |-> 0,
     assertion |-> "not_evaluated", url |-> <<>>]

\* The call for the outcomes reg and run of the collaborators.  conn is the
\* local db when the function is left, closes counts db.close() of line 66,
\* url is the argument of register_connection.
handle_peewee_migration(database_url, reg, run) ==
    IF SkipsMigration(database_url)
    THEN [status |-> "skipped", conn |-> "None", closes |-> 0,
          assertion |-> "not_evaluated", url |-> <<>>]
    ELSE LET \* lines 56-63: db after the try block; the except clause
             \* logs and swallows
             afterTry == IF reg = "raises" THEN "None" ELSE run.conn
             \* lines 65-66
             closing == afterTry = "open"
             afterClose == IF closing THEN "closed" ELSE afterTry
         IN  \* line 67: db.is_closed() on None is an AttributeError
             IF afterClose = "None"
             THEN [status |-> "raised", conn |-> "None", closes |-> 0,
                   assertion |-> "not_evaluated",
                   url |-> PeeweeUrl(database_url)]
             ELSE [status |-> "returned", conn |-> afterClose,
                   closes |-> IF closing THEN 1 ELSE 0,
                   assertion |-> "passed",
                   url |-> PeeweeUrl(database_url)]

(***************************************************************************)
(* config.py: the table operations used by get_config, save_to_db and      *)
(* reset_config.                                                           *)
(***************************************************************************)
Ids(tbl) == {tbl[i].id : i \in 1..Len(tbl)}

MaxId(tbl) == IF tbl = <<>> THEN 0 ELSE CHOOSE m \in Ids(tbl) : \A n \in Ids(tbl) : n <= m

\* db.query(Config).order_by(Config.id.desc()).first() and the return of
\* line 73
LatestData(tbl) ==
    IF tbl = <<>> THEN DEFAULT_CONFIG
    ELSE tbl[CHOOSE i \in 1..Len(tbl) : tbl[i].id = MaxId(tbl)].data

\* lines 88-89 and the commit: a new row, with the next id, version 0, the
\* server's time as created_at and no updated_at
Insert(tbl, data) == Append(tbl, Row(MaxId(tbl) + 1, data, 0, "now", "null"))

\* lines 91-93 and the commit: data and updated_at of the row with this id
Update(tbl, id, data) ==
    [i \in 1..Len(tbl) |->
        IF tbl[i].id = id
        THEN [tbl[i] EXCEPT !.data = data, !.updated_at = "now"]
        ELSE tbl[i]]

(***************************************************************************)
(* Initial state: the environment, the database file and DATA_DIR are      *)
(* inputs; nothing of the process has run.                                 *)
(***************************************************************************)
NoCall == [op |-> "none", arg |-> None, ret |-> NoOutcome]

\* the same value for every thread
All(v) == [t \in Threads |-> v]

Init ==
    /\ environ \in Urls
    /\ DATABASE_URL = NormalizeUrl(environ)
    /\ pool = DefaultPool
    /\ engine = NoEngine
    /\ persisted \in PersistedTables
    /\ table = persisted
    /\ config_json \in LegacyFiles
    /\ old_config_json = Absent
    /\ restarts = 0
    /\ migration = NotCalled
    /\ boot = "import_db"
    /\ initial_data = Unbound
    /\ CONFIG_DATA = Unbound
    /\ pc = All("idle")
    /\ op = All("none")
    /\ arg = All(None)
    /\ db = All(NoneObject)
    /\ existing_config = All(0)
    /\ before = All(<<>>)
    /\ ret = All(NoOutcome)
    /\ prev = All(NoCall)
    /\ ncalls = All(0)

(***************************************************************************)
(* A thread begins and ends a call of get_config, save_to_db or            *)
(* reset_config.                                                           *)
(***************************************************************************)
BeginCall(t, f, a) ==
    /\ pc' = [pc EXCEPT ![t] = "call"]
    /\ op' = [op EXCEPT ![t] = f]
    /\ arg' = [arg EXCEPT ![t] = a]
    /\ before' = [before EXCEPT ![t] = table]
    /\ prev' = [prev EXCEPT ![t] =
                  IF pc[t] = "done"
                  THEN [op |-> op[t], arg |-> arg[t], ret |-> ret[t]]
                  ELSE NoCall]
    /\ ncalls' = [ncalls EXCEPT ![t] = @ + 1]
    /\ UNCHANGED <<db, existing_config, ret>>

\* The block is left with this outcome: get_db's finally clause runs and
\* the outcome reaches the caller.
EndCall(t, outcome) ==
    /\ ret' = [ret EXCEPT ![t] = outcome]
    /\ db' = [db EXCEPT ![t] = get_db_exit(db[t])]
    /\ pc' = [pc EXCEPT ![t] = "done"]
    /\ UNCHANGED <<op, arg, before, prev, ncalls>>

(***************************************************************************)
(* `with get_db() as db:`, lines 66, 80 and 101 of config.py.              *)
(***************************************************************************)
EnterDb(t) ==
    /\ pc[t] = "call"
    /\ db' = [db EXCEPT ![t] = get_db_enter(SessionLocal(DATABASE_URL))]
    /\ pc' = [pc EXCEPT ![t] = "block"]
    /\ UNCHANGED <<envVars, engineVars, fileVars, table, restarts, migration, boot,
                   initial_data, CONFIG_DATA, op, arg, existing_config,
                   before, ret, prev, ncalls>>

(***************************************************************************)
(* The bodies of the with blocks.  `db is None` selects the early return;  *)
(* otherwise the first statement looks up db.query, which only a Session   *)
(* has.                                                                    *)
(***************************************************************************)
\* get_config, lines 67-73
get_config(t) ==
    /\ op[t] = "get_config"
    /\ pc[t] = "block"
    /\ IF db[t].kind = "None" THEN EndCall(t, Return(DEFAULT_CONFIG))
       ELSE IF db[t].kind # "session" THEN EndCall(t, Raise("AttributeError"))
       ELSE EndCall(t, Return(LatestData(table)))
    /\ UNCHANGED <<envVars, engineVars, fileVars, table, restarts, migration, boot,
                   initial_data, CONFIG_DATA, existing_config>>

\* save_to_db, lines 81-94.  The query of line 86 and the commit of line 94
\* are separate steps; first() without an ordering may give any row.
save_to_db(t) ==
    /\ op[t] = "save_to_db"
    /\ \/ /\ pc[t] = "block"
          /\ IF db[t].kind = "None"
             THEN EndCall(t, Return(None)) /\ UNCHANGED existing_config
             ELSE IF db[t].kind # "session"
             THEN EndCall(t, Raise("AttributeError"))
                  /\ UNCHANGED existing_config
             ELSE /\ \E id \in IF table = <<>> THEN {0} ELSE Ids(table) :
                        existing_config' = [existing_config EXCEPT ![t] = id]
                  /\ pc' = [pc EXCEPT ![t] = "queried"]
                  /\ UNCHANGED <<op, arg, db, before, ret, prev, ncalls>>
          /\ UNCHANGED table
       \/ /\ pc[t] = "queried"
          /\ IF existing_config[t] = 0
             THEN table' = Insert(table, arg[t]) /\ EndCall(t, Return(None))
             ELSE IF existing_config[t] \in Ids(table)
             THEN table' = Update(table, existing_config[t], arg[t])
                  /\ EndCall(t, Return(None))
             ELSE UNCHANGED table /\ EndCall(t, Raise("StaleDataError"))
          /\ UNCHANGED existing_config
    /\ UNCHANGED <<envVars, engineVars, fileVars, restarts, migration, boot,
                   initial_data, CONFIG_DATA>>

\* reset_config, lines 102-107
reset_config(t) ==
    /\ op[t] = "reset_config"
    /\ pc[t] = "block"
    /\ IF db[t].kind = "None"
       THEN EndCall(t, Return(None)) /\ UNCHANGED table
       ELSE IF db[t].kind # "session"
       THEN EndCall(t, Raise("AttributeError")) /\ UNCHANGED table
       ELSE table' = <<>> /\ EndCall(t, Return(None))
    /\ UNCHANGED <<envVars, engineVars, fileVars, restarts, migration, boot,
                   initial_data, CONFIG_DATA, existing_config>>

(***************************************************************************)
(* Module-level code, run once by the main thread when the process starts. *)
(***************************************************************************)
\* db.py lines 70-91 and 125-129, executed by the import of line 10 of
\* config.py.  An exception leaving handle_peewee_migration ends the import.
ImportDb ==
    /\ boot = "import_db"
    /\ engine' = create_engine(SQLALCHEMY_DATABASE_URL(DATABASE_URL), pool)
    /\ \E reg \in RegisterOutcomes, run \in RunOutcomes :
          migration' = IF DATABASE_URL # <<>>
                       THEN handle_peewee_migration(DATABASE_URL, reg, run)
                       ELSE NotCalled
    /\ boot' = IF migration'.status = "raised" THEN "failed" ELSE "check_file"
    /\ UNCHANGED <<envVars, environ, pool, fileVars, table, restarts,
                   initial_data, CONFIG_DATA, threadVars>>

\* LegacyRead with the JSONDecodeError caught and the file skipped
LegacyReadSwallowing ==
    /\ boot = "check_file"
    /\ CASE config_json = Absent \/ config_json = Garbage ->
              /\ boot' = "load"
              /\ UNCHANGED <<initial_data, threadVars>>
         [] OTHER ->
              /\ initial_data' = config_json.doc
              /\ boot' = "save"
              /\ BeginCall(MainThread, "save_to_db", config_json.doc)
    /\ UNCHANGED <<envVars, engineVars, fileVars, table, restarts, migration, CONFIG_DATA>>

\* config.py lines 111-114: the existence test, json.load and the call of
\* save_to_db.  json.load raises on text that is not JSON.
LegacyRead ==
    /\ boot = "check_file"
    /\ CASE config_json = Absent ->
              /\ boot' = "load"
              /\ UNCHANGED <<initial_data, threadVars>>
         [] config_json = Garbage ->
              /\ boot' = "failed"
              /\ UNCHANGED <<initial_data, threadVars>>
         [] OTHER ->
              /\ initial_data' = config_json.doc
              /\ boot' = "save"
              /\ BeginCall(MainThread, "save_to_db", config_json.doc)
    /\ UNCHANGED <<envVars, engineVars, fileVars, table, restarts, migration, CONFIG_DATA>>

\* config.py lines 114-115: save_to_db is back; its exception ends the
\* start, otherwise os.rename moves the file.
LegacyRename ==
    /\ boot = "save"
    /\ pc[MainThread] = "done"
    /\ IF ret[MainThread].kind = "raise"
       THEN boot' = "failed" /\ UNCHANGED fileVars
       ELSE /\ boot' = "load"
            /\ old_config_json' = config_json
            /\ config_json' = Absent
    /\ UNCHANGED <<envVars, engineVars, table, restarts, migration, initial_data,
                   CONFIG_DATA, threadVars>>

\* config.py line 118: the call of get_config
LoadConfigData ==
    /\ boot = "load"
    /\ boot' = "loading"
    /\ BeginCall(MainThread, "get_config", None)
    /\ UNCHANGED <<envVars, engineVars, fileVars, table, restarts, migration, initial_data,
                   CONFIG_DATA>>

\* config.py line 118: the assignment, unless get_config raised
SetConfigData ==
    /\ boot = "loading"
    /\ pc[MainThread] = "done"
    /\ IF ret[MainThread].kind = "raise"
       THEN boot' = "failed" /\ UNCHANGED CONFIG_DATA
       ELSE boot' = "done" /\ CONFIG_DATA' = ret[MainThread].value
    /\ UNCHANGED <<envVars, engineVars, fileVars, table, restarts, migration, initial_data,
                   threadVars>>

(***************************************************************************)
(* Callers of the config functions, once the module-level code is over.    *)
(***************************************************************************)
Started == boot \in {"done", "failed"}

RECURSIVE CallsOf(_)
\* calls begun by the threads of S since the process started
CallsOf(S) ==
    IF S = {} THEN 0
    ELSE LET t == CHOOSE u \in S : TRUE
         IN  ncalls[t] + CallsOf(S \ {t})

CanCall(t) ==
    /\ Started
    /\ pc[t] \in {"idle", "done"}
    /\ CallsOf(Workers) < MaxCalls

Call(t) ==
    /\ CanCall(t)
    /\ \/ BeginCall(t, "get_config", None)
       \/ BeginCall(t, "reset_config", None)
       \/ \E data \in SaveDocs : BeginCall(t, "save_to_db", data)
    /\ UNCHANGED <<envVars, engineVars, fileVars, table, restarts, migration, boot,
                   initial_data, CONFIG_DATA>>

\* a call of get_config_value(config_path), which takes no session
GetConfigValue(t, config_path) ==
    /\ CanCall(t)
    /\ op' = [op EXCEPT ![t] = "get_config_value"]
    /\ arg' = [arg EXCEPT ![t] = Str(config_path)]
    /\ ret' = [ret EXCEPT ![t] = get_config_value(CONFIG_DATA, config_path)]
    /\ pc' = [pc EXCEPT ![t] = "done"]
    /\ before' = [before EXCEPT ![t] = table]
    /\ prev' = [prev EXCEPT ![t] =
                  IF pc[t] = "done"
                  THEN [op |-> op[t], arg |-> arg[t], ret |-> ret[t]]
                  ELSE NoCall]
    /\ ncalls' = [ncalls EXCEPT ![t] = @ + 1]
    /\ UNCHANGED <<envVars, engineVars, fileVars, table, restarts, migration, boot,
                   initial_data, CONFIG_DATA, db, existing_config>>

\* "ui.x"
WorkerPaths == { <<"u", "i", ".", "x">> }

(***************************************************************************)
(* The process ends and is started again: the database file and DATA_DIR   *)
(* stay, everything in memory is gone.                                     *)
(***************************************************************************)
Restart ==
    /\ Started
    /\ restarts < MaxRestarts
    /\ restarts' = restarts + 1
    /\ persisted' = table
    /\ migration' = NotCalled
    /\ boot' = "import_db"
    /\ initial_data' = Unbound
    /\ CONFIG_DATA' = Unbound
    /\ pc' = All("idle")
    /\ op' = All("none")
    /\ arg' = All(None)
    /\ db' = All(NoneObject)
    /\ existing_config' = All(0)
    /\ before' = All(<<>>)
    /\ ret' = All(NoOutcome)
    /\ prev' = All(NoCall)
    /\ ncalls' = All(0)
    /\ engine' = NoEngine
    /\ UNCHANGED <<DATABASE_URL, environ, pool, fileVars, table>>

\* The process is killed while the module-level code of config.py, lines
\* 110-118, is running, and is started again.
Crash ==
    /\ boot \in {"check_file", "save", "load", "loading"}
    /\ restarts < MaxRestarts
    /\ restarts' = restarts + 1
    /\ persisted' = table
    /\ migration' = NotCalled
    /\ boot' = "import_db"
    /\ initial_data' = Unbound
    /\ CONFIG_DATA' = Unbound
    /\ pc' = All("idle")
    /\ op' = All("none")
    /\ arg' = All(None)
    /\ db' = All(NoneObject)
    /\ existing_config' = All(0)
    /\ before' = All(<<>>)
    /\ ret' = All(NoOutcome)
    /\ prev' = All(NoCall)
    /\ ncalls' = All(0)
    /\ engine' = NoEngine
    /\ UNCHANGED <<DATABASE_URL, environ, pool, fileVars, table>>

Next ==
    \/ ImportDb
    \/ LegacyRead
    \/ LegacyRename
    \/ LoadConfigData
    \/ SetConfigData
    \/ \E t \in Threads : EnterDb(t)
    \/ \E t \in Threads : get_config(t)
    \/ \E t \in Threads : save_to_db(t)
    \/ \E t \in Threads : reset_config(t)
    \/ \E t \in Workers : Call(t)
    \/ \E t \in Workers, config_path \in WorkerPaths : GetConfigValue(t, config_path)
    \/ Restart
    \/ Crash

Spec == Init /\ [][Next]_vars

(***************************************************************************)
(* get_config_value as a function of the cached document and the path:     *)
(* the cached document and the paths are drawn from bounded sets.          *)
(***************************************************************************)
\* {"ui": {}}, {"a": null}, {"a": true}, {"a": "ab"}, {"a": ["b"]},
\* {"a": {"b": {"": 2}}}, {"": {"": 3}}
CachedDocs ==
    { DEFAULT_CONFIG, DocA, DocUi,
      Dict(<<"u", "i">> :> Dict(<<>>)),
      Dict(<<"a">> :> Null),
      Dict(<<"a">> :> Bool(TRUE)),
      Dict(<<"a">> :> Str(<<"a", "b">>)),
      Dict(<<"a">> :> List(<<Str(<<"b">>)>>)),
      Dict(<<"a">> :> Dict(<<"b">> :> Dict(<<>> :> Num(2)))),
      Dict(<<>> :> Dict(<<>> :> Num(3))) }

PathChars == {"a", "b", "."}

\* "ui.x", "ui.missing.deep", "version", "version.x", "ui.default_locale",
\* "ui.default_locale."
NamedPaths ==
    { <<"u", "i", ".", "x">>,
      <<"u", "i", ".", "m", "i", "s", "s", "i", "n", "g", ".", "d", "e", "e", "p">>,
      <<"v", "e", "r", "s", "i", "o", "n">>,
      <<"v", "e", "r", "s", "i", "o", "n", ".", "x">>,
      <<"u", "i", ".", "d", "e", "f", "a", "u", "l", "t", "_", "l", "o", "c", "a", "l", "e">>,
      <<"u", "i", ".", "d", "e", "f", "a", "u", "l", "t", "_", "l", "o", "c", "a", "l", "e", ".">> }

Paths == NamedPaths \cup UNION {[1..n -> PathChars] : n \in 0..MaxPathLen}

InitValue ==
    /\ environ = <<>>
    /\ DATABASE_URL = <<>>
    /\ pool = DefaultPool
    /\ engine = NoEngine
    /\ persisted = <<>>
    /\ table = <<>>
    /\ config_json = Absent
    /\ old_config_json = Absent
    /\ restarts = 0
    /\ migration = NotCalled
    /\ boot = "done"
    /\ initial_data = Unbound
    /\ CONFIG_DATA \in CachedDocs
    /\ pc = All("idle")
    /\ op = All("none")
    /\ arg = All(None)
    /\ db = All(NoneObject)
    /\ existing_config = All(0)
    /\ before = All(<<>>)
    /\ ret = All(NoOutcome)
    /\ prev = All(NoCall)
    /\ ncalls = All(0)

NextValue == \E config_path \in Paths : GetConfigValue(1, config_path)

SpecValue == InitValue /\ [][NextValue]_vars

(***************************************************************************)
(* The start of the process over a wider range of settings: the URL as the *)
(* environment gives it, legacy scheme included, and the pool settings.    *)
(***************************************************************************)
\* DATABASE_URL unset/empty, sqlite:///:memory:, sqlite:///w.db, postgresql://h/d,
\* postgres://h/d, postgresql://h/sqlite, mysql://h/d
RawUrls ==
    { <<>>,
      <<"s", "q", "l", "i", "t", "e", ":", "/", "/", "/", ":", "m", "e", "m", "o", "r", "y", ":">>,
      <<"s", "q", "l", "i", "t", "e", ":", "/", "/", "/", "w", ".", "d", "b">>,
      <<"p", "o", "s", "t", "g", "r", "e", "s", "q", "l", ":", "/", "/", "h", "/", "d">>,
      <<"p", "o", "s", "t", "g", "r", "e", "s", ":", "/", "/", "h", "/", "d">>,
      <<"p", "o", "s", "t", "g", "r", "e", "s", "q", "l", ":", "/", "/", "h", "/", "s", "q", "l", "i", "t", "e">>,
      <<"m", "y", "s", "q", "l", ":", "/", "/", "h", "/", "d">> }

PoolSizes == {0, 1, 2}
PoolOverflows == {0, 5}
PoolOptions ==
    {PoolSettings(size, max_overflow, 30, 3600) :
        size \in PoolSizes, max_overflow \in PoolOverflows}

InitEngine ==
    /\ environ \in RawUrls
    /\ DATABASE_URL = NormalizeUrl(environ)
    /\ pool \in PoolOptions
    /\ engine = NoEngine
    /\ persisted = <<>>
    /\ table = persisted
    /\ config_json \in {Absent, JsonFile(DocA)}
    /\ old_config_json = Absent
    /\ restarts = 0
    /\ migration = NotCalled
    /\ boot = "import_db"
    /\ initial_data = Unbound
    /\ CONFIG_DATA = Unbound
    /\ pc = All("idle")
    /\ op = All("none")
    /\ arg = All(None)
    /\ db = All(NoneObject)
    /\ existing_config = All(0)
    /\ before = All(<<>>)
    /\ ret = All(NoOutcome)
    /\ prev = All(NoCall)
    /\ ncalls = All(0)

\* the module-level code of db.py and config.py, and restarts
NextEngine ==
    \/ ImportDb
    \/ LegacyRead
    \/ LegacyRename
    \/ LoadConfigData
    \/ SetConfigData
    \/ EnterDb(MainThread)
    \/ get_config(MainThread)
    \/ save_to_db(MainThread)
    \/ Restart

SpecEngine == InitEngine /\ [][NextEngine]_vars

(***************************************************************************)
(* Properties.                                                             *)
(***************************************************************************)
Degraded == ~SessionLocal(DATABASE_URL)

StoreOps == {"get_config", "save_to_db", "reset_config"}

\* t is the only worker that has called anything since the process started
SingleCaller(t) == \A u \in Workers \ {t} : ncalls[u] = 0

\* C1: with no database configured, every completed call of get_config,
\* save_to_db and reset_config has returned without raising, and every
\* completed get_config has returned DEFAULT_CONFIG.
C1_DegradedCallsSucceed ==
    \A t \in Threads :
        (Degraded /\ pc[t] = "done" /\ op[t] \in StoreOps)
            => /\ ret[t].kind = "return"
               /\ op[t] = "get_config" => ret[t].value = DEFAULT_CONFIG

\* C2: with a database configured and a process that started on an empty
\* table, when a single caller has completed save_to_db(doc) and then
\* get_config(), get_config has returned doc.
C2_SaveThenLoad ==
    \A t \in Workers :
        (/\ ~Degraded
         /\ persisted = <<>>
         /\ SingleCaller(t)
         /\ prev[t].op = "save_to_db"
         /\ op[t] = "get_config"
         /\ pc[t] = "done")
            => /\ ret[t].kind = "return"
               /\ ret[t].value = prev[t].arg

\* the workers that have called something since the process started
Callers == {t \in Workers : ncalls[t] > 0}

\* C3: when two or more workers have each completed one save_to_db call,
\* with pairwise distinct payloads, the first of them begun on an empty
\* table, the table holds exactly one row.
C3_ConcurrentSavesOneRow ==
    (/\ ~Degraded
     /\ Cardinality(Callers) >= 2
     /\ \A t \in Callers :
            ncalls[t] = 1 /\ op[t] = "save_to_db" /\ pc[t] = "done"
     /\ \A t, u \in Callers : t # u => arg[t] # arg[u]
     /\ \E t \in Callers : before[t] = <<>>)
        => Len(table) = 1

\* C4: with a database configured, when the start of a process that read a
\* JSON object D from config.json is over, CONFIG_DATA is D, config.json is
\* gone and old_config.json exists.
C4_LegacyImported ==
    (~Degraded /\ Started /\ initial_data # Unbound)
        => /\ CONFIG_DATA = initial_data
           /\ config_json = Absent
           /\ old_config_json = JsonFile(initial_data)

\* C6: inside a with block, db is None exactly when no database is
\* configured, and is an open session otherwise.
C6_NoneExactlyWhenDegraded ==
    \A t \in Threads :
        pc[t] = "block"
            => /\ db[t].kind = "None" <=> Degraded
               /\ ~Degraded => (db[t].kind = "session" /\ db[t].state = "open")

\* C7: with a database configured, when a single caller has completed
\* reset_config() the table is empty, and when it has then completed
\* get_config(), get_config has returned DEFAULT_CONFIG.
C7_ResetThenLoadDefault ==
    \A t \in Workers :
        /\ (/\ ~Degraded
            /\ SingleCaller(t)
            /\ op[t] = "reset_config"
            /\ pc[t] = "done")
               => table = <<>>
        /\ (/\ ~Degraded
            /\ SingleCaller(t)
            /\ prev[t].op = "reset_config"
            /\ op[t] = "get_config"
            /\ pc[t] = "done")
               => /\ ret[t].kind = "return"
                  /\ ret[t].value = DEFAULT_CONFIG

RECURSIVE Lookup(_, _)
\* The value at a path: walk the nested mappings segment by segment, absent
\* (None) as soon as a segment cannot be looked up.
Lookup(value, parts) ==
    IF parts = <<>> THEN value
    ELSE IF value.tag = "dict" /\ Head(parts) \in DOMAIN value.map
         THEN Lookup(value.map[Head(parts)], Tail(parts))
         ELSE None

\* C8: for every cached document and every path, a completed
\* get_config_value has not raised and has returned the value at the path,
\* None when a segment cannot be looked up.
C8_LookupNeverRaises ==
    \A t \in Threads :
        (pc[t] = "done" /\ op[t] = "get_config_value" /\ CONFIG_DATA # Unbound)
            => /\ ret[t].kind = "return"
               /\ ret[t].value = Lookup(CONFIG_DATA, Split(arg[t].s, "."))

\* C9: whenever handle_peewee_migration has been called with a URL that is
\* not skipped, it has returned, with the connection closed and the
\* closed-state assertion passed.
C9_MigrationEndsClosed ==
    migration.status \notin {"not_called", "skipped"}
        => /\ migration.status = "returned"
           /\ migration.conn = "closed"
           /\ migration.assertion = "passed"

\* C11: while config.json holds text that is not JSON, the module-level code
\* never gets past json.load and a start that is over has failed: no config
\* function has been called by it (save_to_db is not called), the table is
\* as the process found it, the file is still config.json, old_config.json
\* does not exist and CONFIG_DATA is not set.
C11_MalformedFileIsFatal ==
    config_json = Garbage
        => /\ boot \in {"import_db", "check_file", "failed"}
           /\ ncalls[MainThread] = 0
           /\ CallsOf(Workers) = 0 => table = persisted
           /\ old_config_json = Absent
           /\ CONFIG_DATA = Unbound

\* a start that got through db.py and failed in json.load
C11_Witness ==
    /\ config_json = Garbage
    /\ boot = "failed"
    /\ migration.status # "raised"

\* C12: for a single caller with a database configured, in a process that
\* started on an empty table, the table never holds more than one row, and a
\* completed save_to_db(data) has returned and has either inserted the only
\* row, with version 0 and this data, into the empty table it found, or
\* overwritten data and updated_at of the row it found, keeping the row
\* count, the id, the version and created_at.
C12_SingleCallerOneRow ==
    \A t \in Workers :
        (~Degraded /\ persisted = <<>> /\ SingleCaller(t))
            => /\ Len(table) <= 1
               /\ (op[t] = "save_to_db" /\ pc[t] = "done")
                     => /\ ret[t].kind = "return"
                        /\ Len(table) = 1
                        /\ table[1].data = arg[t]
                        /\ IF before[t] = <<>>
                           THEN table[1].version = 0
                           ELSE /\ Len(before[t]) = 1
                                /\ table[1].id = before[t][1].id
                                /\ table[1].version = before[t][1].version
                                /\ table[1].created_at = before[t][1].created_at

\* C13: with a database configured, a completed get_config has left the
\* table as it found it and has returned DEFAULT_CONFIG when it found no
\* row, the data of the row with the greatest id otherwise.
C13_LoadReadsLatestOnly ==
    \A t \in Workers :
        (~Degraded /\ SingleCaller(t) /\ op[t] = "get_config" /\ pc[t] = "done")
            => /\ table = before[t]
               /\ ret[t].kind = "return"
               /\ ret[t].value = LatestData(before[t])

DenotesSqlite(url) == StartsWith(url, Sqlite)

\* C19: once db.py has run, there is no engine and no session factory when
\* DATABASE_URL is empty; for a URL that is not one of an SQLite database the
\* engine was created with QueuePool, the configured size, overflow, timeout
\* and recycle and the pre-ping when DATABASE_POOL_SIZE > 0, and with
\* NullPool and the pre-ping otherwise; only an SQLite URL gets the engine
\* with check_same_thread off.
C19_EngineByUrlAndPool ==
    boot # "import_db"
        => IF DATABASE_URL = <<>>
           THEN engine = NoEngine /\ ~SessionLocal(DATABASE_URL)
           ELSE IF DenotesSqlite(DATABASE_URL)
           THEN engine.kind = "engine" /\ SessionLocal(DATABASE_URL)
           ELSE IF pool.DATABASE_POOL_SIZE > 0
           THEN engine = Engine(DATABASE_URL,
                            [pool_size |-> pool.DATABASE_POOL_SIZE,
                             max_overflow |-> pool.DATABASE_POOL_MAX_OVERFLOW,
                             pool_timeout |-> pool.DATABASE_POOL_TIMEOUT,
                             pool_recycle |-> pool.DATABASE_POOL_RECYCLE,
                             pool_pre_ping |-> TRUE,
                             poolclass |-> "QueuePool"])
           ELSE engine = Engine(DATABASE_URL,
                            [pool_pre_ping |-> TRUE, poolclass |-> "NullPool"])

\* C15: with a database configured and at most one row in the table the
\* process found, when a start that read a JSON object D from config.json is
\* over, whether or not earlier starts were killed on the way, the table
\* holds exactly one row, its data is D, config.json is gone and
\* old_config.json holds what config.json held.
C15_ImportReplayIdempotent ==
    (/\ ~Degraded
     /\ Len(persisted) <= 1
     /\ Started
     /\ initial_data # Unbound
     /\ CallsOf(Workers) = 0)
        => /\ Len(table) = 1
           /\ table[1].data = initial_data
           /\ config_json = Absent
           /\ old_config_json = JsonFile(initial_data)

\* C16: with a database configured and one or more rows in the table the
\* process found, when a single caller has completed save_to_db(doc) and
\* then get_config(), get_config has returned doc: the row written is the
\* row read, the one with the greatest id.
C16_SaveWritesRowLoadReads ==
    \A t \in Workers :
        (/\ ~Degraded
         /\ persisted # <<>>
         /\ SingleCaller(t)
         /\ prev[t].op = "save_to_db"
         /\ op[t] = "get_config"
         /\ pc[t] = "done")
            => /\ ret[t].kind = "return"
               /\ ret[t].value = prev[t].arg
               /\ LatestData(table) = prev[t].arg

\* C18: handle_peewee_migration never raises: whatever register_connection
\* and the migration steps do, a call that was made has returned or was
\* skipped, and the start of the process has gone on to config.json.
C18_MigrationSwallowsFailures ==
    /\ migration.status # "raised"
    /\ (boot = "failed" /\ ncalls[MainThread] = 0) => config_json = Garbage

====
